---- MODULE Spec2Model ----
(***************************************************************************)
(* Model of app.py: a Flask application object, one view function `home`   *)
(* registered on "/", and the `app.run(debug=True)` entry point.           *)
(*                                                                         *)
(* The state is the state of the process that executes app.py (its         *)
(* position in the module body, the application object's URL map and debug *)
(* flag, the arguments the development server was started with), the       *)
(* process's inputs (__name__, the environment, argv), the requests the    *)
(* server has accepted, and the development server's access log.           *)
(*                                                                         *)
(* What `Flask(...)`, `@app.route(...)` and `app.run(...)` do is Flask's   *)
(* and Werkzeug's behaviour for exactly the arguments app.py passes:       *)
(*   - Flask(__name__) registers the static-file rule;                     *)
(*   - route("/") without `methods` answers GET, and HEAD and OPTIONS are  *)
(*     added to a rule that answers GET;                                   *)
(*   - run(debug=True) starts Werkzeug's development server, which writes  *)
(*     an access-log line per response, with the reloader (use_reloader    *)
(*     defaults to debug) and with the application wrapped in the debugger *)
(*     middleware (use_debugger defaults to debug).                        *)
(***************************************************************************)
EXTENDS Integers, Sequences, FiniteSets, TLC

\* Number of requests a behaviour may contain (each slot carries one request).
MaxRequests == 2

Slots == 1..MaxRequests

-----------------------------------------------------------------------------
(* The string literal of app.py line 7, as Unicode code points, and the    *)
(* bytes of the same literal as they stand in the (UTF-8) source file.     *)

Greeting ==
  << 127881, 32, 83, 107, 105, 110, 99, 97, 114, 101, 32, 65, 73, 32,
     66, 97, 99, 107, 101, 110, 100, 32, 105, 115, 32,
     82, 117, 110, 110, 105, 110, 103, 33 >>

GreetingBytes ==
  << 240, 159, 142, 137, 32, 83, 107, 105, 110, 99, 97, 114, 101, 32, 65, 73, 32,
     66, 97, 99, 107, 101, 110, 100, 32, 105, 115, 32,
     82, 117, 110, 110, 105, 110, 103, 33 >>

-----------------------------------------------------------------------------
(* Process inputs.                                                         *)

\* __name__ is "__main__" when app.py is run as a script and the module's
\* name when it is imported.
Names == {"__main__", "app"}

\* The environment: "" stands for an unset variable.
Environs ==
  { [FLASK_DEBUG |-> "",  HOST |-> "",        PORT |-> ""],
    [FLASK_DEBUG |-> "0", HOST |-> "0.0.0.0", PORT |-> "8080"] }

Argvs == { <<>>, <<"--port", "8080">> }

-----------------------------------------------------------------------------
(* Requests.  A path is the sequence of its segments: "/" is << >>.        *)

Methods == {"GET", "HEAD", "OPTIONS", "POST"}

RootPath == << >>
MissingPath == << "missing" >>
StaticPath == << "static", "app.css" >>
ConsolePath == << "console" >>
Paths == {RootPath, MissingPath, StaticPath, ConsolePath}

\* A query string is the sequence of its key=value pairs.
NoQuery == << >>
PlainQuery == << << "name", "x" >> >>
DebuggerQuery ==
  << << "__debugger__", "yes" >>, << "cmd", "resource" >>, << "f", "style.css" >> >>

\* Query string, an extra header, and the body of a request.
NoExtras == [query |-> NoQuery, header |-> "", body |-> ""]
Extras ==
  { NoExtras,
    [query |-> PlainQuery,    header |-> "",           body |-> ""],
    [query |-> DebuggerQuery, header |-> "",           body |-> ""],
    [query |-> NoQuery,       header |-> "X-Debug: 1", body |-> ""],
    [query |-> NoQuery,       header |-> "",           body |-> "payload"] }

\* Every method on "/", GET on every other path, and GET / with each query,
\* header and body variant.
Requests ==
  { r \in [method : Methods, path : Paths, extras : Extras] :
      /\ r.path # RootPath => r.method = "GET"
      /\ r.extras # NoExtras => (r.method = "GET" /\ r.path = RootPath) }

NoRequest == [method |-> "", path |-> << >>, extras |-> NoExtras]

-----------------------------------------------------------------------------
(* Values a view returns, and responses.                                   *)

\* A text body (code points, to be encoded) or a bytes body.
Text(s) == [kind |-> "str", data |-> s]
Bytes(b) == [kind |-> "bytes", data |-> b]

NotFoundPage == Text(<< 78, 111, 116, 32, 70, 111, 117, 110, 100 >>)
MethodNotAllowedPage ==
  Text(<< 77, 101, 116, 104, 111, 100, 32, 78, 111, 116, 32,
          65, 108, 108, 111, 119, 101, 100 >>)
InternalServerErrorPage ==
  Text(<< 73, 110, 116, 101, 114, 110, 97, 108, 32, 83, 101, 114, 118, 101, 114,
          32, 69, 114, 114, 111, 114 >>)
StaticFileContent == Bytes(<< 98, 123, 125 >>)
DebuggerResourceContent == Bytes(<< 47, 42, 42, 47 >>)
ConsolePage == Text(<< 67, 111, 110, 115, 111, 108, 101 >>)

NoRv == [status |-> 0, body |-> Text(<< >>), allow |-> {}, raised |-> FALSE]
NoResponse == [status |-> 0, body |-> << >>, allow |-> {}]

NewSlot ==
  [stage |-> "new", req |-> NoRequest, view |-> "none", rv |-> NoRv,
   resp |-> NoResponse]
AbortedSlot == [NewSlot EXCEPT !.stage = "aborted"]

NoServer == [started |-> FALSE, host |-> "", port |-> "", debug |-> FALSE]

-----------------------------------------------------------------------------
VARIABLES
  name,      \* __name__ of the module being executed
  environ,   \* os.environ of the process
  argv,      \* sys.argv[1:] of the process
  pc,        \* position of the process in app.py
  urlMap,    \* app.url_map: the set of registered rules
  debug,     \* app.debug
  server,    \* arguments the development server was started with
  runCalls,  \* number of calls of app.run made by the process
  slots,     \* the requests accepted by the server, one per slot
  log        \* the development server's access log

vars == << name, environ, argv, pc, urlMap, debug, server, runCalls, slots, log >>

appState == << urlMap, debug, server, runCalls, pc >>
inputs == << name, environ, argv >>

-----------------------------------------------------------------------------
(* Encoding of a text body: Flask encodes a str return value as UTF-8.     *)

Utf8Char(c) ==
  IF c < 128 THEN << c >>
  ELSE IF c < 2048 THEN << 192 + (c \div 64), 128 + (c % 64) >>
  ELSE IF c < 65536 THEN
    << 224 + (c \div 4096), 128 + ((c \div 64) % 64), 128 + (c % 64) >>
  ELSE
    << 240 + (c \div 262144), 128 + ((c \div 4096) % 64),
       128 + ((c \div 64) % 64), 128 + (c % 64) >>

RECURSIVE Utf8(_)
Utf8(s) == IF s = << >> THEN << >> ELSE Utf8Char(Head(s)) \o Utf8(Tail(s))

EncodeBody(b) == IF b.kind = "str" THEN Utf8(b.data) ELSE b.data

-----------------------------------------------------------------------------
(* The application object and its routes.                                  *)

\* Fault variant: no HEAD is added to a rule that answers GET.
RouteMethodsNoHead(methods) == methods \cup {"OPTIONS"}

\* The methods of a rule registered with the given `methods`: HEAD is added
\* when GET is present, and OPTIONS is added for the automatic OPTIONS reply.
RouteMethods(methods) ==
  methods \cup (IF "GET" \in methods THEN {"HEAD"} ELSE {}) \cup {"OPTIONS"}

\* Flask(__name__): the constructor registers the static-file rule
\* /static/<path:filename> (static_folder defaults to "static").
StaticRule ==
  [rule |-> << "static", "<path:filename>" >>, endpoint |-> "static",
   methods |-> RouteMethods({"GET"})]

\* Fault variant: the decorator also registers the rule under "/index".
routeAlsoIndex(rule, endpoint) ==
  { [rule |-> rule, endpoint |-> endpoint, methods |-> RouteMethods({"GET"})],
    [rule |-> << "index" >>, endpoint |-> endpoint,
     methods |-> RouteMethods({"GET"})] }

\* @app.route(rule) with no `methods` option: the rules it adds to the URL
\* map; the methods default to GET.
route(rule, endpoint) ==
  { [rule |-> rule, endpoint |-> endpoint, methods |-> RouteMethods({"GET"})] }

\* Whether a rule's pattern matches a request path.  <path:filename> matches
\* one or more segments.
PathMatches(rule, path) ==
  IF rule = << "static", "<path:filename>" >>
  THEN Len(path) >= 2 /\ path[1] = "static"
  ELSE path = rule

Matching(map, path) == { r \in map : PathMatches(r.rule, path) }

AllowedMethods(map, path) == UNION { r.methods : r \in Matching(map, path) }

-----------------------------------------------------------------------------
(* View functions.  `request` is the ambient flask.request.                *)

\* Fault variant: the view raises.
homeRaises(request) == [NoRv EXCEPT !.raised = TRUE]

\* def home(): return "<greeting>"   -- a str return value means status 200.
home(request) == [NoRv EXCEPT !.status = 200, !.body = Text(Greeting)]

\* The static view: the file's bytes, or NotFound when there is no such file.
send_static_file(request, exists) ==
  IF exists THEN [NoRv EXCEPT !.status = 200, !.body = StaticFileContent]
  ELSE [NoRv EXCEPT !.status = 404, !.body = NotFoundPage]

CallView(endpoint, request, exists) ==
  IF endpoint = "home" THEN home(request) ELSE send_static_file(request, exists)

\* An exception escaping a view becomes a 500 response.
HandleException(rv) ==
  IF rv.raised
  THEN [NoRv EXCEPT !.status = 500, !.body = InternalServerErrorPage]
  ELSE rv

\* Request dispatching: URL matching, the automatic OPTIONS reply, the view.
\* The result is the pair of the view that was called and the return value.
DispatchRequest(map, request, exists) ==
  LET matching == Matching(map, request.path)
      usable == { r \in matching : request.method \in r.methods }
  IN IF matching = {}
     THEN [view |-> "none",
           rv |-> [NoRv EXCEPT !.status = 404, !.body = NotFoundPage]]
     ELSE IF usable = {}
     THEN [view |-> "none",
           rv |-> [NoRv EXCEPT !.status = 405, !.body = MethodNotAllowedPage,
                               !.allow = AllowedMethods(map, request.path)]]
     ELSE IF request.method = "OPTIONS"
     THEN [view |-> "none",
           rv |-> [NoRv EXCEPT !.status = 200,
                               !.allow = AllowedMethods(map, request.path)]]
     ELSE LET r == CHOOSE x \in usable : TRUE
          IN [view |-> r.endpoint,
              rv |-> HandleException(CallView(r.endpoint, request, exists))]

\* request.args.get(key): the first value given for the key, "" for none.
ArgsGet(query, key) ==
  LET hits == { i \in 1..Len(query) : query[i][1] = key }
  IN IF hits = {} THEN ""
     ELSE query[CHOOSE i \in hits : \A j \in hits : i <= j][2]

\* The files of the debugger's `shared` directory.
DebuggerResources == {"style.css", "debugger.js", "console.png"}

\* The debugger middleware that run(debug=True) wraps around the
\* application: a request whose query holds __debugger__=yes, cmd=resource
\* and f=<file> is answered with that file of the debugger, and the path
\* /console with the debugger's console page; neither reaches the
\* application.  (The debugger's other commands need its secret.)
DebuggerIntercepts(request) ==
  \/ /\ ArgsGet(request.extras.query, "__debugger__") = "yes"
     /\ ArgsGet(request.extras.query, "cmd") = "resource"
     /\ ArgsGet(request.extras.query, "f") # ""
  \/ /\ ArgsGet(request.extras.query, "__debugger__") # "yes"
     /\ request.path = ConsolePath

DebuggerResponse(request) ==
  IF ArgsGet(request.extras.query, "__debugger__") = "yes"
  THEN IF ArgsGet(request.extras.query, "f") \in DebuggerResources
       THEN [NoRv EXCEPT !.status = 200, !.body = DebuggerResourceContent]
       ELSE [NoRv EXCEPT !.status = 404, !.body = NotFoundPage]
  ELSE [NoRv EXCEPT !.status = 200, !.body = ConsolePage]

\* The WSGI application the development server calls: the debugger
\* middleware around the Flask application when use_debugger is on.
WsgiApp(use_debugger, map, request, exists) ==
  IF use_debugger /\ DebuggerIntercepts(request)
  THEN [view |-> "debugger", rv |-> DebuggerResponse(request)]
  ELSE DispatchRequest(map, request, exists)

\* The response sent for a return value: the body is encoded, and a HEAD
\* request is answered with the headers only.
MakeResponse(request, rv) ==
  [status |-> rv.status,
   body |-> IF request.method = "HEAD" THEN << >> ELSE EncodeBody(rv.body),
   allow |-> rv.allow]

\* The access-log line the development server writes for a response.
LogLine(request, resp) ==
  [method |-> request.method, path |-> request.path, status |-> resp.status]

-----------------------------------------------------------------------------
(* Initial state: a process is about to execute app.py.                    *)

Init ==
  /\ name \in Names
  /\ environ \in Environs
  /\ argv \in Argvs
  /\ pc = "line3"
  /\ urlMap = {}
  /\ debug = FALSE
  /\ server = NoServer
  /\ runCalls = 0
  /\ slots = [s \in Slots |-> NewSlot]
  /\ log = << >>

-----------------------------------------------------------------------------
(* Execution of the module body.                                           *)

\* Line 3: app = Flask(__name__).  The new application object holds the
\* static rule, and its debug flag comes from FLASK_DEBUG.
CreateApp ==
  /\ pc = "line3"
  /\ urlMap' = {StaticRule}
  /\ debug' = (environ.FLASK_DEBUG \notin {"", "0"})
  /\ pc' = "line5"
  /\ UNCHANGED << inputs, server, runCalls, slots, log >>

\* Lines 5-7: @app.route("/") def home(): ...
RegisterHome ==
  /\ pc = "line5"
  /\ urlMap' = urlMap \cup route(RootPath, "home")
  /\ pc' = "line9"
  /\ UNCHANGED << inputs, debug, server, runCalls, slots, log >>

\* Fault variant: the guard of line 9 is missing.
AlwaysMain == TRUE

\* Line 9: __name__ == "__main__"
IsMain == name = "__main__"

\* Line 9: the body of the `if` is entered only by the main script; an
\* importing process has finished loading the module.
CheckMain ==
  /\ pc = "line9"
  /\ pc' = IF IsMain THEN "line10" ELSE "done"
  /\ UNCHANGED << inputs, urlMap, debug, server, runCalls, slots, log >>

\* The arguments of the call on line 10: host and port are left to their
\* defaults (None), debug is True; neither the environment nor argv is read.
runArgs(env, args) ==
  [started |-> TRUE, host |-> "None", port |-> "None", debug |-> TRUE]

\* Line 10: app.run(debug=True).  The call sets app.debug and starts the
\* development server; it returns only when the process ends.
Run ==
  /\ pc = "line10"
  /\ server' = runArgs(environ, argv)
  /\ debug' = server'.debug
  /\ runCalls' = runCalls + 1
  /\ pc' = "serving"
  /\ UNCHANGED << inputs, urlMap, slots, log >>

-----------------------------------------------------------------------------
(* The development server, inside app.run.  Requests are handled by        *)
(* threads of the serving process (threaded=True is the default), so the   *)
(* steps of different requests interleave.                                 *)

InFlight(s) == slots[s].stage \in {"accepted", "returned"}

\* Slots are used in order.
NextSlot(s) ==
  /\ slots[s].stage = "new"
  /\ \A t \in Slots : t < s => slots[t].stage # "new"

\* The server accepts a connection and reads a request.
Accept(s) ==
  /\ pc = "serving"
  /\ NextSlot(s)
  /\ \E r \in Requests :
       slots' = [slots EXCEPT ![s] = [NewSlot EXCEPT !.stage = "accepted",
                                                      !.req = r]]
  /\ UNCHANGED << inputs, appState, log >>

\* Fault variant: the view writes a line to the log each time it is called.
DispatchLogsHit(s) ==
  /\ pc = "serving"
  /\ slots[s].stage = "accepted"
  /\ \E exists \in BOOLEAN :
       LET d == WsgiApp(server.debug, urlMap, slots[s].req, exists)
       IN /\ slots' = [slots EXCEPT ![s].stage = "returned",
                                    ![s].view = d.view,
                                    ![s].rv = d.rv]
          /\ log' = IF d.view = "home"
                    THEN Append(log, LogLine(slots[s].req, NoResponse))
                    ELSE log
  /\ UNCHANGED << inputs, appState >>

\* The server calls the WSGI application for the request: the debugger
\* middleware, then the application's dispatching (the URL map is consulted
\* and the view called).  Whether a static file exists is the file system's,
\* at that moment.
Dispatch(s) ==
  /\ pc = "serving"
  /\ slots[s].stage = "accepted"
  /\ \E exists \in BOOLEAN :
       LET d == WsgiApp(server.debug, urlMap, slots[s].req, exists)
       IN slots' = [slots EXCEPT ![s].stage = "returned",
                                 ![s].view = d.view,
                                 ![s].rv = d.rv]
  /\ UNCHANGED << inputs, appState, log >>

\* Fault variant: the server handles one request and then returns from
\* app.run, so the script runs to its end.
RespondOnce(s) ==
  /\ pc = "serving"
  /\ slots[s].stage = "returned"
  /\ LET resp == MakeResponse(slots[s].req, slots[s].rv)
     IN /\ slots' = [slots EXCEPT ![s].stage = "responded", ![s].resp = resp]
        /\ log' = Append(log, LogLine(slots[s].req, resp))
  /\ pc' = "done"
  /\ UNCHANGED << inputs, urlMap, debug, server, runCalls >>

\* The response is sent and the server writes its access-log line.
Respond(s) ==
  /\ pc = "serving"
  /\ slots[s].stage = "returned"
  /\ LET resp == MakeResponse(slots[s].req, slots[s].rv)
     IN /\ slots' = [slots EXCEPT ![s].stage = "responded", ![s].resp = resp]
        /\ log' = Append(log, LogLine(slots[s].req, resp))
  /\ UNCHANGED << inputs, appState >>

\* The requests in flight when the serving process ends are dropped.
DropInFlight ==
  [s \in Slots |-> IF InFlight(s) THEN AbortedSlot ELSE slots[s]]

\* debug=True turns on the reloader: when a source file changes, the serving
\* process exits and is started again.
SourceChanged ==
  /\ pc = "serving"
  /\ server.debug
  /\ pc' = "reloading"
  /\ slots' = DropInFlight
  /\ UNCHANGED << inputs, urlMap, debug, server, runCalls, log >>

\* The restarted process executes app.py from the top with the same inputs.
Restart ==
  /\ pc = "reloading"
  /\ pc' = "line3"
  /\ urlMap' = {}
  /\ debug' = FALSE
  /\ server' = NoServer
  /\ runCalls' = 0
  /\ UNCHANGED << inputs, slots, log >>

\* The process is terminated from outside (a signal).  There is no shutdown
\* handler in app.py.
Terminate ==
  /\ pc \in {"line3", "line5", "line9", "line10", "serving"}
  /\ pc' = "killed"
  /\ slots' = DropInFlight
  /\ UNCHANGED << inputs, urlMap, debug, server, runCalls, log >>

Next ==
  \/ CreateApp
  \/ RegisterHome
  \/ CheckMain
  \/ Run
  \/ \E s \in Slots : Accept(s)
  \/ \E s \in Slots : Dispatch(s)
  \/ \E s \in Slots : Respond(s)
  \/ SourceChanged
  \/ Restart
  \/ Terminate

Spec == Init /\ [][Next]_vars

\* The server's threads keep being scheduled: a request that can be
\* dispatched or answered eventually is.
LiveSpec ==
  /\ Init
  /\ [][Next]_vars
  /\ \A s \in Slots : WF_vars(Dispatch(s)) /\ WF_vars(Respond(s))

-----------------------------------------------------------------------------
(* Properties.                                                             *)

IsGetRoot(r) == r.method = "GET" /\ r.path = RootPath
IsStatic(r) == Len(r.path) >= 2 /\ r.path[1] = "static"
Responded(s) == slots[s].stage = "responded"

\* The routes of a URL map: (method, rule, endpoint) triples.
Routes(map) == UNION { { << m, r.rule, r.endpoint >> : m \in r.methods } : r \in map }

\* The module body has been executed up to (at least) line 9.
Loaded == pc \in {"line9", "line10", "serving", "done", "reloading"}

\* A step in which slot s's request is dispatched, or answered.
DispatchStep(s) == slots[s].stage = "accepted" /\ slots'[s].stage = "returned"
RespondStep(s) == slots[s].stage = "returned" /\ slots'[s].stage = "responded"

\* C1: every answered GET / has status 200 and exactly the greeting's bytes
\* as its body, whatever requests came before and however often it is
\* repeated.
C1_GetRootReturnsGreeting ==
  \A s \in Slots :
    (Responded(s) /\ IsGetRoot(slots[s].req)) =>
      /\ slots[s].resp.status = 200
      /\ slots[s].resp.body = GreetingBytes

C3_ExactlyOneRoute ==
  Loaded => Routes(urlMap) = { << "GET", RootPath, "home" >> }

\* C3 amended: once the module is loaded the application object holds exactly
\* two rules, "/" -> home registered by app.py and the static-file rule the
\* constructor registers, each answering GET, HEAD and OPTIONS; and no rule
\* is added or removed while the server runs.
C3_RoutesFixed ==
  /\ [](Loaded =>
          /\ Routes(urlMap) =
               { << m, RootPath, "home" >> : m \in {"GET", "HEAD", "OPTIONS"} }
               \cup { << m, << "static", "<path:filename>" >>, "static" >> :
                        m \in {"GET", "HEAD", "OPTIONS"} }
          /\ Cardinality(urlMap) = 2)
  /\ [][pc = "serving" => urlMap' = urlMap]_vars

\* C3 witness: the server has answered a request and the URL map holds the
\* two rules.
C3_Witness ==
  /\ pc = "serving"
  /\ \E s \in Slots : Responded(s)
  /\ Cardinality(urlMap) = 2
  /\ \E r \in urlMap : r.endpoint = "home" /\ r.rule = RootPath

\* C4: two answered GET / requests get the same status and the same body,
\* whatever their query strings, headers and bodies.
C4_ResponseIgnoresRequestData ==
  \A s, t \in Slots :
    (Responded(s) /\ Responded(t) /\ IsGetRoot(slots[s].req) /\ IsGetRoot(slots[t].req)) =>
      /\ slots[s].resp.status = slots[t].resp.status
      /\ slots[s].resp.body = slots[t].resp.body

\* C5 as stated: handling GET / changes no server-side state and writes no
\* log entry.
C5_NoSideEffect ==
  [][\A s \in Slots :
       (IsGetRoot(slots[s].req) /\ (DispatchStep(s) \/ RespondStep(s))) =>
         (log' = log /\ UNCHANGED << appState, inputs >>)]_vars

\* C5 amended: handling GET / leaves the application object, the process's
\* position and inputs and every other request untouched, and the step that
\* calls the application (and with it `home`) writes no log entry; the one
\* effect besides the response is that the development server started by
\* app.run appends one access-log line when it sends the response.
C5_OnlyAccessLog ==
  [][\A s \in Slots :
       /\ (IsGetRoot(slots[s].req) /\ (DispatchStep(s) \/ RespondStep(s))) =>
            /\ UNCHANGED << appState, inputs >>
            /\ \A t \in Slots \ {s} : slots'[t] = slots[t]
       /\ (IsGetRoot(slots[s].req) /\ DispatchStep(s)) => log' = log
       /\ (IsGetRoot(slots[s].req) /\ RespondStep(s)) =>
            log' = Append(log, [method |-> "GET", path |-> RootPath,
                                status |-> slots'[s].resp.status])]_vars

\* C5 witness: the server started by line 10 has answered a GET / by calling
\* `home` and its access log holds the line for it.
C5_Witness ==
  /\ server.started
  /\ \E s \in Slots : Responded(s) /\ IsGetRoot(slots[s].req) /\ slots[s].view = "home"
  /\ \E i \in 1..Len(log) :
       log[i] = [method |-> "GET", path |-> RootPath, status |-> 200]

\* C6: under every interleaving, the step that handles a GET / produces
\* status 200 and the greeting, and the step that answers it sends 200 and
\* the greeting's bytes, whatever stage the other requests are in; the
\* handling step changes nothing but its own request.
C6_ConcurrentRequestsIndependent ==
  [][\A s \in Slots :
       /\ (IsGetRoot(slots[s].req) /\ DispatchStep(s)) =>
            /\ slots'[s].rv = [NoRv EXCEPT !.status = 200, !.body = Text(Greeting)]
            /\ \A t \in Slots \ {s} : slots'[t] = slots[t]
            /\ UNCHANGED << appState, inputs, log >>
       /\ (IsGetRoot(slots[s].req) /\ RespondStep(s)) =>
            /\ slots'[s].resp = [NoResponse EXCEPT !.status = 200, !.body = GreetingBytes]
            /\ \A t \in Slots \ {s} : slots'[t] = slots[t]]_vars

\* C7: the main script's call on line 10 puts the process into the serving
\* state; a step that accepts, dispatches or answers a request leaves it
\* serving; the serving state is left only when the serving process ends
\* (killed, or exited by the reloader), and that step completes no request
\* in flight: there is no shutdown phase.
C7_ServesUntilTerminated ==
  [][/\ (pc = "line10" /\ pc' # "line10") => pc' \in {"serving", "killed"}
     /\ (pc = "serving") => pc' \in {"serving", "reloading", "killed"}
     /\ (pc = "serving" /\ \E s \in Slots : slots'[s].stage \notin {slots[s].stage, "aborted"})
          => pc' = "serving"
     /\ (pc = "serving" /\ pc' # "serving") =>
          /\ \A s \in Slots : InFlight(s) => slots'[s].stage = "aborted"
          /\ \A s \in Slots : ~InFlight(s) => slots'[s] = slots[s]
          /\ log' = log
     /\ (pc = "killed") => pc' = "killed"]_vars

\* C7 witness: the server answered a request, kept serving, and was then
\* killed while another request was in flight.
C7_Witness ==
  /\ pc = "killed"
  /\ server.started
  /\ Responded(1)
  /\ slots[2].stage = "aborted"

\* C8: `home` never raises, so no GET / is answered with status 500 and one
\* for which `home` is called is answered 200; and, the server's threads
\* being scheduled, every accepted GET / is eventually answered unless the
\* serving process ends first.
C8_GetRootEventuallyAnswered ==
  /\ [](\A s \in Slots :
          (IsGetRoot(slots[s].req) /\ slots[s].stage \in {"returned", "responded"}) =>
            /\ ~slots[s].rv.raised
            /\ slots[s].rv.status # 500
            /\ (Responded(s) => slots[s].resp.status # 500)
            /\ (Responded(s) /\ slots[s].view = "home") => slots[s].resp.status = 200)
  /\ \A s \in Slots :
       (slots[s].stage = "accepted" /\ IsGetRoot(slots[s].req))
         ~> (slots[s].stage \in {"responded", "aborted"})

\* C8 witness: an accepted GET / has been answered, through `home`, by a
\* process that is still serving.
C8_Witness ==
  /\ pc = "serving"
  /\ \E s \in Slots :
       /\ Responded(s) /\ IsGetRoot(slots[s].req)
       /\ slots[s].view = "home"
       /\ ~slots[s].rv.raised
       /\ slots[s].resp.status = 200

\* C9: once loaded, the application object holds the "/" rule; a process
\* that imports the module never starts a server; the main script calls
\* app.run once, with debug on and host and port left at their defaults,
\* whatever the environment and argv hold.
C9_ServerStartedOnlyByMain ==
  /\ Loaded => (\E r \in urlMap : r.rule = RootPath /\ r.endpoint = "home")
  /\ (name # "__main__") =>
       (~server.started /\ runCalls = 0 /\ pc \notin {"line10", "serving", "reloading"})
  /\ (pc = "done") => ~server.started
  /\ runCalls <= 1
  /\ (pc \in {"line3", "line5", "line9", "line10"}) => (~server.started /\ runCalls = 0)
  /\ (pc = "serving") => server.started
  /\ server.started =>
       /\ name = "__main__"
       /\ runCalls = 1
       /\ server = [started |-> TRUE, host |-> "None", port |-> "None", debug |-> TRUE]
       /\ debug

\* C9 witness: the main script is serving with debug on and default host
\* and port although the environment and argv name a port.
C9_Witness ==
  /\ pc = "serving"
  /\ name = "__main__"
  /\ environ.PORT # "" /\ environ.FLASK_DEBUG = "0"
  /\ argv # << >>
  /\ server.port = "None" /\ server.debug
  /\ runCalls = 1

====
